---- MODULE Spec2Model ----
(***************************************************************************)
(* Model of the outbound bridge of bridge.js (src/bridge.js:382-460): the  *)
(* module-level WebSocket handle `ws`, the message queue `msgQueue`, the   *)
(* idle timer and the reconnect timers armed by the close handler, driven  *)
(* by sendToChatroom, the open/close/error handlers and the timers.        *)
(*                                                                         *)
(* The WebSocket class is the `ws` package: an instance is CONNECTING,     *)
(* OPEN, CLOSING or CLOSED, it only moves forward through these states,    *)
(* close() turns a CONNECTING or OPEN instance into CLOSING and is a no-op *)
(* otherwise, an instance is CLOSING by the time its 'error' listeners     *)
(* run, and CLOSED when its 'close' listeners run.  send() is called       *)
(* without a callback, so the handler never learns whether the frame went  *)
(* out: the outcome is recorded in `sent`.                                 *)
(***************************************************************************)
EXTENDS Integers, Sequences, FiniteSets, TLC

VARIABLES
    ws,          \* the module-level handle: 0 (undefined) or a transport id
    sockets,     \* sockets[i]: readyState of the i-th WebSocket created
    msgQueue,    \* sequence of [text, time]
    idleTimer,   \* handle kept by resetIdleTimer: 0 (null) or a timer id
    timers,      \* pending setTimeout callbacks: [id, kind, deadline, owner]
    now,         \* Date.now(), in ms since start
    nticks,      \* number of clock advances so far
    nmsgs,       \* number of sendToChatroom calls so far
    sent,        \* log of ws.send calls: [text, suffix, to, queued, at, ok]
    errored,     \* transports that have emitted 'error'
    broken,      \* transports whose socket no longer carries frames
    created,     \* created[i]: [at, by, src, cookie] of the i-th new WebSocket
    closed,      \* closed[i]: [at, qlen, cur] at the 'close' event of i (at = -1: none)
    cookie,      \* CONFIG.COOKIE: [id, exp] (exp in s; -1 unparsable, 0 no exp claim)
    envFile,     \* the COOKIE line of .env: a cookie id, or -1 when there is no file
    runs,        \* the renewCookieIfNeeded calls so far: [pc, at, exp, file]
    nextRenewAt, \* the next expiry of setInterval(renewCookieIfNeeded, ...)
    relayCfg,    \* CONFIG of the HTTP relay: [token, password] (configured or not)
    reqs,        \* the HTTP requests so far: [route, auth, body, pc, status, connects, session]
    handled,     \* the lines given to handleLogLine so far: [line, event, n]
    outputLines, \* log_parser.js: the records pushed by handleLine: [stamp, event]
    lastBaseTime,  \* log_parser.js: lastBaseTime
    currentOffset, \* log_parser.js: currentOffset
    returned,    \* the values generateTimestamp has returned
    ncalls       \* number of generateTimestamp calls so far

\* the outbound bridge, the credential renewal, the HTTP relay
bvars == <<ws, sockets, msgQueue, idleTimer, timers, now, nticks,
           nmsgs, sent, errored, broken, created, closed>>
cvars == <<cookie, envFile, runs, nextRenewAt>>
hvars == <<relayCfg, reqs>>
lvars == <<handled, outputLines, lastBaseTime, currentOffset, returned, ncalls>>

vars == <<ws, sockets, msgQueue, idleTimer, timers, now, nticks,
          nmsgs, sent, errored, broken, created, closed,
          cookie, envFile, runs, nextRenewAt, relayCfg, reqs,
          handled, outputLines, lastBaseTime, currentOffset, returned, ncalls>>

\* ---------------------------------------------------------------- bounds
MaxMsgs == 2
MaxTransports == 3
MaxTicks == 2
MaxRuns == 2
MaxReqs == 2
MaxLines == 1
MaxOut == 2
MaxCalls == 210
TickMs == 3000

\* ------------------------------------------------------ program constants
RECONNECT_DELAY == 5000
IDLE_TIMEOUT == 10 * 60 * 1000
LATENCY_THRESHOLD == 5
\* setInterval given the period in seconds
RenewPeriodSeconds == 24 * 60 * 60
RENEW_PERIOD == 24 * 60 * 60 * 1000
DAY == 60 * 60 * 24
RENEW_DAYS == 10

Live == {"CONNECTING", "OPEN"}

\* connect() guarded by the OPEN test alone
ConnectIsNoopOpenOnly(w, sk) == w # 0 /\ sk[w] = "OPEN"

\* ws && (ws.readyState === OPEN || ws.readyState === CONNECTING)
ConnectIsNoop(w, sk) == w # 0 /\ sk[w] \in Live

\* ws && ws.readyState === WebSocket.OPEN
IsOpen(w, sk) == w # 0 /\ sk[w] = "OPEN"

\* WebSocket.close(): CONNECTING and OPEN become CLOSING, otherwise a no-op
WsClose(w, sk) ==
    IF w # 0 /\ sk[w] \in Live THEN [sk EXCEPT ![w] = "CLOSING"] ELSE sk

\* latency.toFixed(0) for latency = ms / 1000: round to nearest, half up
ToFixed0(ms) == (ms + 500) \div 1000

\* the annotation with latency >= 5 in place of latency > 5
DelaySuffixGe(msg, t) ==
    IF t - msg.time >= LATENCY_THRESHOLD * 1000 THEN ToFixed0(t - msg.time) ELSE 0

\* the suffix of finalText: 0 for none, else N of " (delayed Ns)"
DelaySuffix(msg, t) ==
    IF t - msg.time > LATENCY_THRESHOLD * 1000 THEN ToFixed0(t - msg.time) ELSE 0

\* msgQueue.pop() in place of shift(): the newest message is taken
ShiftPop(q) == [msg |-> q[Len(q)], rest |-> SubSeq(q, 1, Len(q) - 1)]

\* msgQueue.shift(): the message taken and the queue left
Shift(q) == [msg |-> Head(q), rest |-> Tail(q)]

\* msgQueue.unshift in place of push: the message goes to the front
PushFront(q, m) == <<m>> \o q

\* msgQueue.push({text, time})
Push(q, m) == Append(q, m)

\* the while loop of flushMsgQueue on transport w: every message is shifted
\* off the queue and handed to w.send; ok records whether w still carries it
RECURSIVE FlushLoop(_, _, _)
FlushLoop(q, w, acc) ==
    IF Len(q) = 0 THEN acc
    ELSE LET s == Shift(q)
         IN FlushLoop(s.rest, w,
                      Append(acc, [text   |-> s.msg.text,
                                   suffix |-> DelaySuffix(s.msg, now),
                                   to     |-> w,
                                   queued |-> s.msg.time,
                                   at     |-> now,
                                   ok     |-> w \notin broken]))

\* setTimeout returns a handle distinct from every handle still in use
NewTimer(ts) ==
    CHOOSE n \in 1..(Cardinality(ts) + 2) :
        /\ n # idleTimer
        /\ \A t \in ts : t.id # n
        /\ \A m \in 1..(n - 1) : m = idleTimer \/ \E t \in ts : t.id = m

\* resetIdleTimer() without its clearTimeout
ResetIdleTimerNoClear(ts) ==
    ts \cup {[id |-> NewTimer(ts), kind |-> "idle",
              deadline |-> now + IDLE_TIMEOUT, owner |-> 0]}

\* resetIdleTimer(): clear the pending idle timer, arm a fresh one
ResetIdleTimer(ts) ==
    {t \in ts : t.id # idleTimer}
        \cup {[id |-> NewTimer(ts), kind |-> "idle",
               deadline |-> now + IDLE_TIMEOUT, owner |-> 0]}

\* flushMsgQueue() reading the messages without taking them off the queue
FlushKeepQueue(q, sk, ts) ==
    IF ~IsOpen(ws, sk)
    THEN /\ msgQueue' = q
         /\ timers' = ts
         /\ UNCHANGED <<sent, idleTimer>>
    ELSE /\ sent' = sent \o FlushLoop(q, ws, <<>>)
         /\ msgQueue' = q
         /\ timers' = ResetIdleTimer(ts)
         /\ idleTimer' = NewTimer(ts)

\* flushMsgQueue() with the queue q, the readyStates sk and the timers ts
Flush(q, sk, ts) ==
    IF ~IsOpen(ws, sk)
    THEN /\ msgQueue' = q
         /\ timers' = ts
         /\ UNCHANGED <<sent, idleTimer>>
    ELSE /\ sent' = sent \o FlushLoop(q, ws, <<>>)
         /\ msgQueue' = <<>>
         /\ timers' = ResetIdleTimer(ts)
         /\ idleTimer' = NewTimer(ts)

\* connect() with the cookie read once at startup in place of CONFIG.COOKIE
ConnectInitialCookie(sk, by, src) ==
    IF ConnectIsNoop(ws, sk)
    THEN /\ sockets' = sk
         /\ UNCHANGED <<ws, created, closed>>
    ELSE /\ Len(sk) < MaxTransports
         /\ sockets' = Append(sk, "CONNECTING")
         /\ ws' = Len(sk) + 1
         /\ created' = Append(created, [at |-> now, by |-> by, src |-> src,
                                      cookie |-> 0])
         /\ closed' = Append(closed, [at |-> -1, qlen |-> 0, cur |-> FALSE])

\* connect() called from `by` (src: the transport whose close armed the timer)
Connect(sk, by, src) ==
    IF ConnectIsNoop(ws, sk)
    THEN /\ sockets' = sk
         /\ UNCHANGED <<ws, created, closed>>
    ELSE /\ Len(sk) < MaxTransports
         /\ sockets' = Append(sk, "CONNECTING")
         /\ ws' = Len(sk) + 1
         /\ created' = Append(created, [at |-> now, by |-> by, src |-> src,
                                      cookie |-> cookie.id])
         /\ closed' = Append(closed, [at |-> -1, qlen |-> 0, cur |-> FALSE])

\* the bridge after the connect() at startup, at time t
BridgeInit(t) ==
    /\ ws = 1
    /\ sockets = <<"CONNECTING">>
    /\ msgQueue = <<>>
    /\ idleTimer = 0
    /\ timers = {}
    /\ now = t
    /\ nticks = 0
    /\ nmsgs = 0
    /\ sent = <<>>
    /\ errored = {}
    /\ broken = {}
    /\ created = <<[at |-> t, by |-> "start", src |-> 0, cookie |-> 0]>>
    /\ closed = <<[at |-> -1, qlen |-> 0, cur |-> FALSE]>>

\* the HTTP relay before any request, with both secrets configured
RelayInit ==
    /\ relayCfg = [token |-> TRUE, password |-> TRUE]
    /\ reqs = <<>>

\* log_parser.js at load, and no log line handled yet
LogInit ==
    /\ handled = <<>>
    /\ outputLines = <<>>
    /\ lastBaseTime = 0
    /\ currentOffset = 100
    /\ returned = {}
    /\ ncalls = 0

Init ==
    /\ LogInit
    /\ BridgeInit(0)
    /\ cookie = [id |-> 0, exp |-> 9 * DAY]
    /\ envFile = 0
    /\ runs = <<>>
    /\ nextRenewAt = RENEW_PERIOD
    /\ RelayInit

\* sendToChatroom(text): the texts are numbered in call order
SendToChatroom ==
    /\ UNCHANGED <<cvars, hvars>>
    /\ nmsgs < MaxMsgs
    /\ nmsgs' = nmsgs + 1
    /\ LET q == Push(msgQueue, [text |-> nmsgs + 1, time |-> now])
       IN IF IsOpen(ws, sockets)
          THEN /\ Flush(q, sockets, timers)
               /\ UNCHANGED <<ws, sockets, created, closed>>
          ELSE /\ msgQueue' = q
               /\ Connect(sockets, "enqueue", 0)
               /\ UNCHANGED <<timers, idleTimer, sent>>
    /\ UNCHANGED <<now, nticks, errored, broken>>

\* the open handler without its flushMsgQueue()
TransportOpenNoFlush(i) ==
    /\ UNCHANGED <<cvars, hvars, lvars>>
    /\ sockets[i] = "CONNECTING"
    /\ sockets' = [sockets EXCEPT ![i] = "OPEN"]
    /\ UNCHANGED <<ws, now, nticks, nmsgs, errored, broken, created, closed,
                   msgQueue, timers, sent, idleTimer>>

\* ws.on('open'): the handshake of transport i succeeded
TransportOpen(i) ==
    /\ UNCHANGED <<cvars, hvars, lvars>>
    /\ sockets[i] = "CONNECTING"
    /\ LET sk == [sockets EXCEPT ![i] = "OPEN"]
       IN /\ sockets' = sk
          /\ Flush(msgQueue, sk, timers)
    /\ UNCHANGED <<ws, now, nticks, nmsgs, errored, broken, created, closed>>

\* ws.on('error'): transport i reports an error; the handler calls ws.close()
TransportError(i) ==
    /\ UNCHANGED <<cvars, hvars, lvars>>
    /\ sockets[i] \in {"CONNECTING", "OPEN", "CLOSING"}
    /\ i \notin errored
    /\ errored' = errored \cup {i}
    /\ sockets' = WsClose(ws, [sockets EXCEPT ![i] = "CLOSING"])
    /\ UNCHANGED <<ws, msgQueue, idleTimer, timers, now, nticks, nmsgs,
                   sent, broken, created, closed>>

\* the close handler without its setTimeout
TransportCloseNoTimer(i) ==
    /\ UNCHANGED <<cvars, hvars, lvars>>
    /\ sockets[i] \in {"OPEN", "CLOSING"}
    /\ sockets' = [sockets EXCEPT ![i] = "CLOSED"]
    /\ closed' = [closed EXCEPT ![i] = [at |-> now, qlen |-> Len(msgQueue),
                                          cur |-> ws = i]]
    /\ UNCHANGED <<ws, msgQueue, idleTimer, now, nticks, nmsgs, sent, errored,
                   broken, created, timers>>

\* the close handler with a delay of 500 in place of 5000
TransportCloseShortDelay(i) ==
    /\ UNCHANGED <<cvars, hvars, lvars>>
    /\ sockets[i] \in {"OPEN", "CLOSING"}
    /\ sockets' = [sockets EXCEPT ![i] = "CLOSED"]
    /\ timers' = timers \cup {[id |-> NewTimer(timers), kind |-> "reconnect",
                               deadline |-> now + 500, owner |-> i]}
    /\ closed' = [closed EXCEPT ![i] = [at |-> now, qlen |-> Len(msgQueue),
                                          cur |-> ws = i]]
    /\ UNCHANGED <<ws, msgQueue, idleTimer, now, nticks, nmsgs, sent, errored,
                   broken, created>>

\* ws.on('close'): transport i is closed; a reconnect timer is armed
TransportClose(i) ==
    /\ UNCHANGED <<cvars, hvars, lvars>>
    /\ sockets[i] \in {"OPEN", "CLOSING"}
    /\ sockets' = [sockets EXCEPT ![i] = "CLOSED"]
    /\ timers' = timers \cup {[id |-> NewTimer(timers), kind |-> "reconnect",
                               deadline |-> now + RECONNECT_DELAY, owner |-> i]}
    /\ closed' = [closed EXCEPT ![i] = [at |-> now, qlen |-> Len(msgQueue),
                                          cur |-> ws = i]]
    /\ UNCHANGED <<ws, msgQueue, idleTimer, now, nticks, nmsgs, sent, errored,
                   broken, created>>

\* the callback without its queue test: connect() on every expiry
ReconnectFireAlways(t) ==
    /\ UNCHANGED <<cvars, hvars, lvars>>
    /\ t.kind = "reconnect"
    /\ t.deadline = now
    /\ timers' = timers \ {t}
    /\ Connect(sockets, "timer", t.owner)
    /\ UNCHANGED <<msgQueue, idleTimer, now, nticks, nmsgs, sent,
                   errored, broken>>

\* the callback armed by the close handler: if (msgQueue.length > 0) connect()
ReconnectFire(t) ==
    /\ UNCHANGED <<cvars, hvars, lvars>>
    /\ t.kind = "reconnect"
    /\ t.deadline = now
    /\ timers' = timers \ {t}
    /\ IF Len(msgQueue) > 0
       THEN Connect(sockets, "timer", t.owner)
       ELSE UNCHANGED <<ws, sockets, created, closed>>
    /\ UNCHANGED <<msgQueue, idleTimer, now, nticks, nmsgs, sent,
                   errored, broken>>

\* the callback without its readyState test: ws.close() on every expiry
IdleFireNoCheck(t) ==
    /\ UNCHANGED <<cvars, hvars, lvars>>
    /\ t.kind = "idle"
    /\ t.deadline = now
    /\ timers' = timers \ {t}
    /\ sockets' = WsClose(ws, sockets)
    /\ UNCHANGED <<ws, msgQueue, idleTimer, now, nticks, nmsgs, sent,
                   errored, broken, created, closed>>

\* the callback armed by resetIdleTimer: close ws if it is still OPEN
IdleFire(t) ==
    /\ UNCHANGED <<cvars, hvars, lvars>>
    /\ t.kind = "idle"
    /\ t.deadline = now
    /\ timers' = timers \ {t}
    /\ sockets' = IF IsOpen(ws, sockets) THEN WsClose(ws, sockets) ELSE sockets
    /\ UNCHANGED <<ws, msgQueue, idleTimer, now, nticks, nmsgs, sent,
                   errored, broken, created, closed>>

\* time passes, up to the next deadline: by TickMs or to that deadline
Tick(d) ==
    /\ UNCHANGED <<cvars, hvars, lvars>>
    /\ nticks < MaxTicks
    /\ d > 0
    /\ \A t \in timers : t.deadline >= now + d
    /\ nextRenewAt >= now + d
    /\ now' = now + d
    /\ nticks' = nticks + 1
    /\ UNCHANGED <<ws, sockets, msgQueue, idleTimer, timers, nmsgs,
                   sent, errored, broken, created, closed>>

\* the socket under an OPEN transport stops carrying frames; readyState stays
\* OPEN until the transport reports it
SocketBreak(i) ==
    /\ UNCHANGED <<cvars, hvars, lvars>>
    /\ sockets[i] = "OPEN"
    /\ i \notin broken
    /\ broken' = broken \cup {i}
    /\ UNCHANGED <<ws, sockets, msgQueue, idleTimer, timers, now, nticks, nmsgs,
                   sent, errored, created, closed>>

Next ==
    \/ SendToChatroom /\ UNCHANGED lvars
    \/ \E i \in DOMAIN sockets : TransportOpen(i)
    \/ \E i \in DOMAIN sockets : TransportError(i)
    \/ \E i \in DOMAIN sockets : TransportClose(i)
    \/ \E i \in DOMAIN sockets : SocketBreak(i)
    \/ \E t \in timers : ReconnectFire(t)
    \/ \E t \in timers : IdleFire(t)
    \/ \E d \in {TickMs} \cup {t.deadline - now : t \in timers} : Tick(d)

Spec == Init /\ [][Next]_vars

\* ------------------------------------------------------- credential renewal
\* payload && payload.exp: parseJwt returned a payload that has an exp claim
Parsable(c) == c.exp > 0

\* daysLeft <= 10 in place of daysLeft < 10
NeedsRenewalLe(c, t) == c.exp - (t \div 1000) <= RENEW_DAYS * DAY

\* daysLeft < 10, for daysLeft = (exp - Math.floor(Date.now() / 1000)) / DAY
NeedsRenewal(c, t) == c.exp - (t \div 1000) < RENEW_DAYS * DAY

\* renewCookieIfNeeded() up to its first await: the check, and the token
\* request of performRenewal when the check asks for a renewal
StartRun ==
    Append(runs, [pc   |-> IF ~Parsable(cookie) THEN "skipped"
                           ELSE IF NeedsRenewal(cookie, now) THEN "token"
                           ELSE "notneeded",
                  at   |-> now,
                  exp  |-> cookie.exp,
                  end  |-> -1,
                  out  |-> "none",
                  file |-> "none"])

\* the exp claims of the cookies the login endpoint may issue at time t
IssuedExps(t) == {-1, (t \div 1000) + 9 * DAY, (t \div 1000) + 11 * DAY}

\* renewCookieIfNeeded() called at startup
RenewAtStart ==
    /\ runs = <<>>
    /\ runs' = StartRun
    /\ UNCHANGED <<lvars, bvars, hvars, cookie, envFile, nextRenewAt>>

\* renewCookieIfNeeded() called by the 24-hour setInterval
RenewInterval ==
    /\ Len(runs) >= 1
    /\ Len(runs) < MaxRuns
    /\ now = nextRenewAt
    /\ nextRenewAt' = nextRenewAt + RENEW_PERIOD
    /\ runs' = StartRun
    /\ UNCHANGED <<lvars, bvars, hvars, cookie, envFile>>

\* performRenewal after the token request: out is how POST /api/tokens ended
TokenResponse(r, out) ==
    /\ runs[r].pc = "token"
    /\ runs' = [runs EXCEPT ![r].pc = IF out = "ok" THEN "login" ELSE "failed",
                             ![r].out = IF out = "ok" THEN "none" ELSE out,
                             ![r].end = IF out = "ok" THEN -1 ELSE now]
    /\ UNCHANGED <<lvars, bvars, hvars, cookie, envFile, nextRenewAt>>

\* the end of performRenewal with the rollback of CONFIG.COOKIE when the
\* write of .env fails
LoginResponseRollback(r, out, e, w) ==
    /\ runs[r].pc = "login"
    /\ IF out = "ok"
       THEN /\ cookie' = IF envFile # -1 /\ ~w THEN cookie
                         ELSE [id |-> cookie.id + 1, exp |-> e]
            /\ envFile' = IF envFile # -1 /\ w THEN cookie.id + 1 ELSE envFile
            /\ runs' = [runs EXCEPT ![r].pc = "done", ![r].end = now,
                                     ![r].file = IF envFile = -1 THEN "absent"
                                                 ELSE IF w THEN "written"
                                                 ELSE "writefail"]
       ELSE /\ runs' = [runs EXCEPT ![r].pc = "failed", ![r].out = out,
                                     ![r].end = now]
            /\ UNCHANGED <<cookie, envFile>>
    /\ UNCHANGED <<lvars, bvars, hvars, nextRenewAt>>

\* the end of performRenewal with CONFIG.COOKIE assigned from the header
\* before the header is tested
LoginResponseEarlyAssign(r, out, e, w) ==
    /\ runs[r].pc = "login"
    /\ IF out = "ok"
       THEN /\ cookie' = [id |-> cookie.id + 1, exp |-> e]
            /\ envFile' = IF envFile # -1 /\ w THEN cookie.id + 1 ELSE envFile
            /\ runs' = [runs EXCEPT ![r].pc = "done", ![r].end = now,
                                     ![r].file = IF envFile = -1 THEN "absent"
                                                 ELSE IF w THEN "written"
                                                 ELSE "writefail"]
       ELSE /\ runs' = [runs EXCEPT ![r].pc = "failed", ![r].out = out,
                                     ![r].end = now]
            /\ cookie' = IF out = "nosetcookie"
                         THEN [id |-> cookie.id + 1, exp |-> -1] ELSE cookie
            /\ UNCHANGED envFile
    /\ UNCHANGED <<lvars, bvars, hvars, nextRenewAt>>

\* performRenewal after the login request: out is how POST /api/login ended,
\* e the exp claim of the cookie issued, w whether writeFileSync succeeds
LoginResponse(r, out, e, w) ==
    /\ runs[r].pc = "login"
    /\ IF out = "ok"
       THEN /\ cookie' = [id |-> cookie.id + 1, exp |-> e]
            /\ envFile' = IF envFile # -1 /\ w THEN cookie.id + 1 ELSE envFile
            /\ runs' = [runs EXCEPT ![r].pc = "done", ![r].end = now,
                                     ![r].file = IF envFile = -1 THEN "absent"
                                                 ELSE IF w THEN "written"
                                                 ELSE "writefail"]
       ELSE /\ runs' = [runs EXCEPT ![r].pc = "failed", ![r].out = out,
                                     ![r].end = now]
            /\ UNCHANGED <<cookie, envFile>>
    /\ UNCHANGED <<lvars, bvars, hvars, nextRenewAt>>

TokenOutcomes == {"ok", "notok", "invalid", "rejected"}
LoginOutcomes == {"ok", "notok", "nosetcookie", "rejected"}

\* the exp claims of the cookie in .env at startup: unparsable, without exp,
\* and 9, just under 10, 10, just over 10 and 11 days ahead
InitExps(t) == {-1, 0} \cup {(t \div 1000) + d :
                   d \in {9 * DAY, 10 * DAY - 1, 10 * DAY, 10 * DAY + 1, 11 * DAY}}

\* the renewal alone: the bridge stays as it is after startup
InitRenew ==
    /\ LogInit
    /\ \E t \in {0, 999} : BridgeInit(t)
    /\ \E e \in InitExps(now) : cookie = [id |-> 0, exp |-> e]
    /\ envFile \in {-1, 0}
    /\ runs = <<>>
    /\ nextRenewAt = now + RENEW_PERIOD
    /\ RelayInit

NextRenew ==
    \/ RenewAtStart
    \/ RenewInterval
    \/ \E r \in DOMAIN runs : \E out \in TokenOutcomes : TokenResponse(r, out)
    \/ \E r \in DOMAIN runs : \E out \in LoginOutcomes :
          \E e \in IssuedExps(now) : \E w \in BOOLEAN : LoginResponse(r, out, e, w)
    \/ \E d \in {TickMs, nextRenewAt - now} : Len(runs) >= 1 /\ Tick(d)

SpecRenew == InitRenew /\ [][NextRenew]_vars

\* the calls of renewCookieIfNeeded whose exchange has not ended
InProgress == {r \in DOMAIN runs : runs[r].pc \in {"token", "login"}}

\* the bridge together with the renewal started at startup
NextCred ==
    \/ SendToChatroom /\ UNCHANGED lvars
    \/ \E i \in DOMAIN sockets : TransportOpen(i)
    \/ \E i \in DOMAIN sockets : TransportClose(i)
    \/ \E t \in timers : ReconnectFire(t)
    \/ \E d \in {TickMs} \cup {t.deadline - now : t \in timers} : Tick(d)
    \/ RenewAtStart
    \/ \E r \in DOMAIN runs : \E out \in TokenOutcomes : TokenResponse(r, out)
    \/ \E r \in DOMAIN runs : \E out \in LoginOutcomes :
          \E e \in IssuedExps(now) : \E w \in BOOLEAN : LoginResponse(r, out, e, w)

SpecCred == Init /\ [][NextCred]_vars

\* ----------------------------------------------------------- HTTP relay
\* a request: route "root" is POST /, auth how its Authorization header
\* compares with 'Bearer <BRIDGE_TOKEN>', body what its body holds
Routes == {"root", "other"}
Auths == {"none", "wrong", "right"}
Bodies == {"command", "nonstring", "empty", "missing", "null", "malformed"}

\* JSON.parse(body) throws, or data.command throws because data is null
BodyThrows(b) == b \in {"malformed", "null"}

\* data.command is truthy
HasCommand(b) == b \in {"command", "nonstring"}

\* the request handler up to the registration of the body listeners, with a
\* token test that only rejects a missing Authorization header
HttpRequestMissingOnly(route, auth, body) ==
    /\ Len(reqs) < MaxReqs
    /\ LET st == IF route # "root" THEN 404
                 ELSE IF relayCfg.token /\ auth = "none" THEN 401
                 ELSE 0
       IN reqs' = Append(reqs, [route |-> route, auth |-> auth, body |-> body,
                                pc |-> IF st = 0 THEN "body" ELSE "done",
                                status |-> st, connects |-> 0, sends |-> 0,
                                session |-> "none", fail |-> "none"])
    /\ UNCHANGED <<lvars, bvars, cvars, relayCfg>>

\* the request handler up to the registration of the body listeners
HttpRequest(route, auth, body) ==
    /\ Len(reqs) < MaxReqs
    /\ LET st == IF route # "root" THEN 404
                 ELSE IF relayCfg.token /\ auth # "right" THEN 401
                 ELSE 0
       IN reqs' = Append(reqs, [route |-> route, auth |-> auth, body |-> body,
                                pc |-> IF st = 0 THEN "body" ELSE "done",
                                status |-> st, connects |-> 0, sends |-> 0,
                                session |-> "none", fail |-> "none"])
    /\ UNCHANGED <<lvars, bvars, cvars, relayCfg>>

\* the 'end' listener of the request up to its await: the body is parsed and
\* sendRconCommand runs up to Rcon.connect, or returns at once when
\* RCON_PASSWORD is not configured
BodyEnd(q) ==
    /\ reqs[q].pc = "body"
    /\ reqs' = [reqs EXCEPT ![q] =
         IF BodyThrows(@.body) THEN [@ EXCEPT !.pc = "done", !.status = 500]
         ELSE IF ~HasCommand(@.body) THEN [@ EXCEPT !.pc = "done", !.status = 400]
         ELSE IF ~relayCfg.password THEN [@ EXCEPT !.pc = "done", !.status = 200]
         ELSE [@ EXCEPT !.pc = "connect", !.connects = @ + 1]]
    /\ UNCHANGED <<lvars, bvars, cvars, relayCfg>>

\* sendRconCommand after Rcon.connect settled: rcon.send, or the catch, after
\* which the listener answers 200
RconConnected(q, ok) ==
    /\ reqs[q].pc = "connect"
    /\ reqs' = [reqs EXCEPT ![q] =
         IF ok THEN [@ EXCEPT !.pc = "send", !.session = "open", !.sends = @ + 1]
         ELSE [@ EXCEPT !.pc = "done", !.status = 200, !.fail = "connect"]]
    /\ UNCHANGED <<lvars, bvars, cvars, relayCfg>>

\* sendRconCommand after rcon.send settled: rcon.end, or the catch, which
\* leaves the session as it is
RconSent(q, ok) ==
    /\ reqs[q].pc = "send"
    /\ reqs' = [reqs EXCEPT ![q] =
         IF ok THEN [@ EXCEPT !.pc = "end"]
         ELSE [@ EXCEPT !.pc = "done", !.status = 200, !.fail = "send"]]
    /\ UNCHANGED <<lvars, bvars, cvars, relayCfg>>

\* sendRconCommand after rcon.end settled; the listener answers 200
RconEnded(q, ok) ==
    /\ reqs[q].pc = "end"
    /\ reqs' = [reqs EXCEPT ![q] =
         IF ok THEN [@ EXCEPT !.pc = "done", !.status = 200, !.session = "closed"]
         ELSE [@ EXCEPT !.pc = "done", !.status = 200, !.fail = "end"]]
    /\ UNCHANGED <<lvars, bvars, cvars, relayCfg>>

\* the relay alone, with BRIDGE_TOKEN and RCON_PASSWORD configured or not
InitRelay ==
    /\ LogInit
    /\ BridgeInit(0)
    /\ cookie = [id |-> 0, exp |-> 9 * DAY]
    /\ envFile = 0
    /\ runs = <<>>
    /\ nextRenewAt = RENEW_PERIOD
    /\ relayCfg \in [token : BOOLEAN, password : BOOLEAN]
    /\ reqs = <<>>

NextRelay ==
    \/ \E route \in Routes, auth \in Auths, body \in Bodies :
          HttpRequest(route, auth, body)
    \/ \E q \in DOMAIN reqs : BodyEnd(q)
    \/ \E q \in DOMAIN reqs : \E ok \in BOOLEAN : RconConnected(q, ok)
    \/ \E q \in DOMAIN reqs : \E ok \in BOOLEAN : RconSent(q, ok)
    \/ \E q \in DOMAIN reqs : \E ok \in BOOLEAN : RconEnded(q, ok)

SpecRelay == InitRelay /\ [][NextRelay]_vars

\* the requests to POST / that passed the token test
Authorised(q) ==
    reqs[q].route = "root" /\ (relayCfg.token => reqs[q].auth = "right")

\* ------------------------------------------------------------ log lines
\* A log line is a sequence of pieces, each of which the regular expressions
\* of handleLogLine / PATTERNS take or refuse as a whole.
TS == "[12:00:00] "
CHAT == "[Async Chat Thread - #1/INFO]: "
SRV == "[Server thread/INFO]: "
WARN == "[Server thread/WARN]: "
PFX == "[Owner] "
PFXOPEN == "Owner] "
TAG == "<Steve> "
JOINED == " joined the game"
LEFT == " left the game"
WELCOME == " Steve, sunshine! Just wanted to send a little virtual hug your way. Hope your day is as awesome as you are! Have a fantastic time here on Salmonized Workspace!"
WELCOMEV == " wasabi, sunshine! Just wanted to send a little virtual hug your way. Hope your day is as awesome as you are! Have a fantastic time here on Salmonized Workspace!"
ADV == " has made the advancement [Stone Age]"
FELL == " fell from a high place"
HELLO == " says hello"

\* the pieces matched by (\w+)
Words == {"Steve", "Hey"}

\* the pieces matched by ' ' followed by one of the verbs of the death rule
\* and anything (was..., left..., fell...)
VerbTails == {FELL, LEFT, WELCOMEV}

\* the pieces matched by the optional prefix of the chat rule:
\* (?:\[[^\]]+\] )? in bridge.js, (?:[^\]]+\] )? in log_parser.js
Prefixes(v) == IF v = "bridge" THEN {PFX} ELSE {PFX, PFXOPEN}

Tok(s, k) == IF k \in DOMAIN s THEN s[k] ELSE ""

\* the regular expression of `rule` (variant v: "bridge" or "parser")
\* matches the line s from piece i on
MatchAt(rule, v, s, i) ==
    /\ Tok(s, i) = TS
    /\ CASE rule = "chat" ->
              /\ Tok(s, i + 1) = CHAT
              /\ \/ Tok(s, i + 2) = TAG /\ Len(s) > i + 2
                 \/ /\ Tok(s, i + 2) \in Prefixes(v)
                    /\ Tok(s, i + 3) = TAG /\ Len(s) > i + 3
         [] rule = "join" ->
              Tok(s, i + 1) = SRV /\ Tok(s, i + 2) \in Words /\ Tok(s, i + 3) = JOINED
         [] rule = "leave" ->
              Tok(s, i + 1) = SRV /\ Tok(s, i + 2) \in Words /\ Tok(s, i + 3) = LEFT
         [] rule = "welcome" ->
              /\ Tok(s, i + 1) = SRV /\ Tok(s, i + 2) = "Hey"
              /\ Tok(s, i + 3) \in {WELCOME, WELCOMEV}
         [] rule = "advancement" ->
              Tok(s, i + 1) = SRV /\ Tok(s, i + 2) \in Words /\ Tok(s, i + 3) = ADV
         [] rule = "death" ->
              /\ Tok(s, i + 1) = SRV /\ Tok(s, i + 2) \in Words
              /\ Tok(s, i + 3) \in VerbTails
         [] OTHER -> FALSE

\* line.match(regex): the leftmost position where the rule matches, 0 if none
Match(rule, v, s) ==
    IF \E i \in DOMAIN s : MatchAt(rule, v, s, i)
    THEN CHOOSE i \in DOMAIN s :
            /\ MatchAt(rule, v, s, i)
            /\ \A j \in DOMAIN s : MatchAt(rule, v, s, j) => i <= j
    ELSE 0

\* the event a rule makes of its match at i: the rule and the player captured
Formatter(rule, s, i) ==
    [rule |-> rule,
     player |-> IF rule = "chat" THEN "Steve"
                ELSE IF rule = "welcome"
                     THEN (IF s[i + 3] = WELCOME THEN "Steve" ELSE "wasabi")
                ELSE s[i + 2]]

NoMatch == [rule |-> "none", player |-> ""]

\* line.includes('/INFO]')
HasInfo(s) == \E k \in DOMAIN s : s[k] \in {CHAT, SRV}

\* handleLogLine with the death rule tested before the leave rule
HandleLogLineDeathFirst(s) ==
    IF ~HasInfo(s) THEN NoMatch
    ELSE IF Match("chat", "bridge", s) # 0
         THEN Formatter("chat", s, Match("chat", "bridge", s))
    ELSE IF Match("join", "bridge", s) # 0
         THEN Formatter("join", s, Match("join", "bridge", s))
    ELSE IF Match("death", "bridge", s) # 0
         THEN Formatter("death", s, Match("death", "bridge", s))
    ELSE IF Match("leave", "bridge", s) # 0
         THEN Formatter("leave", s, Match("leave", "bridge", s))
    ELSE IF Match("welcome", "bridge", s) # 0
         THEN Formatter("welcome", s, Match("welcome", "bridge", s))
    ELSE IF Match("advancement", "bridge", s) # 0
         THEN Formatter("advancement", s, Match("advancement", "bridge", s))
    ELSE NoMatch

\* handleLogLine(line): the event passed to sendToChatroom, or NoMatch
HandleLogLineEvent(s) ==
    IF ~HasInfo(s) THEN NoMatch
    ELSE IF Match("chat", "bridge", s) # 0
         THEN Formatter("chat", s, Match("chat", "bridge", s))
    ELSE IF Match("join", "bridge", s) # 0
         THEN Formatter("join", s, Match("join", "bridge", s))
    ELSE IF Match("leave", "bridge", s) # 0
         THEN Formatter("leave", s, Match("leave", "bridge", s))
    ELSE IF Match("welcome", "bridge", s) # 0
         THEN Formatter("welcome", s, Match("welcome", "bridge", s))
    ELSE IF Match("advancement", "bridge", s) # 0
         THEN Formatter("advancement", s, Match("advancement", "bridge", s))
    ELSE IF Match("death", "bridge", s) # 0
         THEN Formatter("death", s, Match("death", "bridge", s))
    ELSE NoMatch

\* log_parser.js: the rules in the order of the array
PATTERNS == <<"chat", "join", "leave", "welcome", "advancement", "death">>

\* the loop over PATTERNS from the k-th rule on: the events pushed
RECURSIVE MatchPatterns(_, _)
MatchPatterns(s, k) ==
    IF k > Len(PATTERNS) THEN <<>>
    ELSE IF Match(PATTERNS[k], "parser", s) # 0
         THEN <<Formatter(PATTERNS[k], s, Match(PATTERNS[k], "parser", s))>>
         ELSE MatchPatterns(s, k + 1)

\* a line: whether text stands before its timestamp, the second of its
\* timestamp, and the pieces after the timestamp
Toks(line) == (IF line.lead THEN <<"junk ">> ELSE <<>>) \o <<TS>> \o line.toks

LineBodies ==
    { <<CHAT, TAG, HELLO>>, <<CHAT, PFX, TAG, HELLO>>, <<CHAT, PFXOPEN, TAG, HELLO>>,
      <<CHAT, TAG>>,
      <<CHAT, TAG, TS, SRV, "Steve", JOINED>>, <<CHAT, TAG, TS, SRV, "Steve", FELL>>,
      <<SRV, "Steve", JOINED>>, <<SRV, "Steve", LEFT>>,
      <<SRV, "Hey", WELCOME>>, <<SRV, "Hey", WELCOMEV>>,
      <<SRV, "Steve", ADV>>, <<SRV, "Steve", FELL>>, <<SRV, "Steve", HELLO>>,
      <<WARN, "Steve", JOINED>>, <<WARN, "Steve", HELLO, TS, SRV, "Steve", JOINED>>,
      <<SRV, "Steve", FELL, TS, SRV, "Steve", LEFT>>,
      <<SRV, "Steve", LEFT, TS, SRV, "Steve", JOINED>> }

Seconds == 0 .. 1

Lines == [lead : BOOLEAN, sec : Seconds, toks : LineBodies]

\* the day of the log file, in days since 1970-01-01
LogDay == 1

\* new Date(`${dateStr}T${timeStr}+08:00`).getTime()
BaseTime(d, sec) == (d * 86400 + sec - 8 * 3600) * 1000

\* generateTimestamp for a valid date: the new lastBaseTime and
\* currentOffset, and the value returned
GenerateTimestamp(base, last, off) ==
    IF base = last
    THEN LET o == IF off < 900 THEN off + 100 ELSE off + 1
         IN [last |-> last, off |-> o, value |-> base + o]
    ELSE [last |-> base, off |-> 100, value |-> base + 100]

\* the rest of handleLine for the events evs: a timestamp and a push each
RECURSIVE PushEvents(_, _, _, _)
PushEvents(evs, line, base, st) ==
    IF evs = <<>> THEN st
    ELSE LET g == GenerateTimestamp(base, st.last, st.off)
         IN PushEvents(Tail(evs), line, base,
                [out |-> Append(st.out, [stamp |-> g.value, event |-> Head(evs),
                                         line |-> line]),
                 last |-> g.last, off |-> g.off,
                 ret |-> st.ret \cup {g.value}, n |-> st.n + 1])

\* rl.on('line'): handleLogLine(line), with the sendToChatroom it makes
HandleLogLine(line) ==
    /\ Len(handled) < MaxLines
    /\ LET ev == HandleLogLineEvent(Toks(line))
       IN IF ev = NoMatch
          THEN /\ handled' = Append(handled, [line |-> line, event |-> ev, n |-> 0])
               /\ UNCHANGED <<bvars, cvars, hvars>>
          ELSE /\ handled' = Append(handled, [line |-> line, event |-> ev,
                                              n |-> nmsgs + 1])
               /\ SendToChatroom
    /\ UNCHANGED <<outputLines, lastBaseTime, currentOffset, returned, ncalls>>

\* log_parser.js: handleLine(line, dateStr, outputLines)
HandleLine(line, d) ==
    /\ Len(outputLines) < MaxOut
    /\ LET s == Toks(line)
           evs == IF ~HasInfo(s) \/ line.lead THEN <<>> ELSE MatchPatterns(s, 1)
           st == PushEvents(evs, line, BaseTime(d, line.sec),
                            [out |-> outputLines, last |-> lastBaseTime,
                             off |-> currentOffset, ret |-> returned, n |-> ncalls])
       IN /\ outputLines' = st.out
          /\ lastBaseTime' = st.last
          /\ currentOffset' = st.off
          /\ returned' = st.ret
          /\ ncalls' = st.n
    /\ UNCHANGED <<bvars, cvars, hvars, handled>>

NextLog ==
    \/ \E line \in Lines : HandleLogLine(line)
    \/ \E line \in Lines : HandleLine(line, LogDay)

SpecLog == Init /\ [][NextLog]_vars

\* generateTimestamp(dateStr, timeStr) called for second sec of day d; the
\* calls come in non-decreasing time order
GenerateTimestampCall(d, sec) ==
    /\ ncalls < MaxCalls
    /\ BaseTime(d, sec) >= lastBaseTime
    /\ LET g == GenerateTimestamp(BaseTime(d, sec), lastBaseTime, currentOffset)
       IN /\ lastBaseTime' = g.last
          /\ currentOffset' = g.off
          /\ returned' = returned \cup {g.value}
          /\ ncalls' = ncalls + 1
    /\ UNCHANGED <<bvars, cvars, hvars, handled, outputLines>>

NextStamp == \E sec \in Seconds : GenerateTimestampCall(LogDay, sec)

SpecStamp == Init /\ [][NextStamp]_vars

\* the rules that match the line s somewhere
Matching(v, s) ==
    {r \in {"chat", "join", "leave", "welcome", "advancement", "death"} :
        \E i \in DOMAIN s : MatchAt(r, v, s, i)}

\* ------------------------------------------------------------ derived state
\* ConnectionState as connect() and sendToChatroom() read it off ws.readyState
ConnState ==
    IF ws = 0 THEN "Disconnected"
    ELSE IF sockets[ws] = "CONNECTING" THEN "Connecting"
    ELSE IF sockets[ws] = "OPEN" THEN "Open"
    ELSE "Disconnected"

Queued(m) == \E i \in DOMAIN msgQueue : msgQueue[i].text = m
Delivered(m) == \E j \in DOMAIN sent : sent[j].text = m /\ sent[j].ok
ReconnectTimers == {t \in timers : t.kind = "reconnect"}
IdleTimers == {t \in timers : t.kind = "idle"}

TypeOK ==
    /\ ws \in 0..Len(sockets)
    /\ \A i \in DOMAIN sockets : sockets[i] \in {"CONNECTING", "OPEN", "CLOSING", "CLOSED"}
    /\ Len(created) = Len(sockets) /\ Len(closed) = Len(sockets)
    /\ \A t \in timers : t.deadline >= now

\* ------------------------------------------------------------------ claims

\* C1: every message that was enqueued is still in msgQueue or was delivered
\* by a transport that carried it; it leaves the queue in no other way, also
\* not when the send fails.
C1_NoLoss == \A m \in 1..nmsgs : Queued(m) \/ Delivered(m)

\* C2: messages are handed to the transport in enqueue order: in the log of
\* ws.send calls an earlier entry always carries an earlier-enqueued text,
\* whatever was queued while not Open and however many reconnects happened.
C2_Fifo == \A i, j \in DOMAIN sent : i < j => sent[i].text < sent[j].text

\* C2 witness: two messages queued before the first transport failed, both
\* sent on a later transport
C2_Witness ==
    /\ Len(sent) = 2
    /\ sent[1].to = sent[2].to /\ sent[1].to > 1
    /\ closed[1].at >= 0 /\ closed[1].qlen = 2

\* C3: at most one transport is CONNECTING or OPEN at any time, it is the one
\* ws names, and no step taken while ws is CONNECTING or OPEN creates a
\* transport (connect is then a no-op).
C3_SingleLive ==
    /\ [](\A i \in DOMAIN sockets : sockets[i] \in Live => i = ws)
    /\ [][(ws # 0 /\ sockets[ws] \in Live) => Len(sockets') = Len(sockets)]_vars

\* C3 witness: connect was called twice (two enqueues) while the first
\* transport was CONNECTING, and there is still one transport
C3_Witness ==
    /\ nmsgs = 2 /\ Len(msgQueue) = 2
    /\ Len(sockets) = 1 /\ sockets[1] = "CONNECTING"

\* the reconnect timer armed by the close of transport i has expired
Expired(i) ==
    /\ closed[i].at >= 0
    /\ now >= closed[i].at + 5000
    /\ \A t \in ReconnectTimers : t.owner # i

\* the transports created by the expiry of the timer of transport i
CreatedByTimerOf(i) ==
    {j \in DOMAIN created : created[j].by = "timer" /\ created[j].src = i}

\* a reconnect timer expires in this step
ReconnectExpiry(t) == t \in ReconnectTimers /\ t \notin timers'

\* C4 as stated: the close of the current transport with a non-empty queue
\* results in exactly one new transport, created when the 5 seconds have
\* elapsed and not earlier, whatever is enqueued during the delay.
C4_Original ==
    \A i \in DOMAIN closed :
        (Expired(i) /\ closed[i].cur /\ closed[i].qlen > 0) =>
            /\ Cardinality(CreatedByTimerOf(i)) = 1
            /\ \A j \in DOMAIN created :
                   j > i => created[j].at >= closed[i].at + 5000

\* C4 amended: the close of a transport arms one timer, pending until exactly
\* 5 seconds after the close; its expiry creates a new transport if and only
\* if the queue is non-empty and ws is neither CONNECTING nor OPEN (an
\* enqueue during the delay creates the new transport at once, and the expiry
\* then creates none), so a close results in at most one transport, never
\* earlier than its 5 seconds.
C4_Amended ==
    /\ [](\A i \in DOMAIN closed :
            /\ Cardinality({t \in ReconnectTimers : t.owner = i})
                   = (IF closed[i].at >= 0 /\ ~Expired(i) THEN 1 ELSE 0)
            /\ \A t \in ReconnectTimers :
                   t.owner = i => t.deadline = closed[i].at + 5000
            /\ Cardinality(CreatedByTimerOf(i)) <= 1
            /\ \A j \in CreatedByTimerOf(i) :
                   created[j].at = closed[i].at + 5000)
    /\ [][\A t \in timers : ReconnectExpiry(t) =>
             /\ now = t.deadline
             /\ (Len(sockets') = Len(sockets) + 1)
                    <=> (Len(msgQueue) > 0 /\ ~(ws # 0 /\ sockets[ws] \in Live))
             /\ Len(sockets') > Len(sockets) =>
                    /\ created'[Len(sockets')].at = now
                    /\ created'[Len(sockets')].by = "timer"
                    /\ created'[Len(sockets')].src = t.owner]_vars

\* C4 witness: a transport closed with a message queued, and the expiry of its
\* timer created the next transport
C4_Witness ==
    \E i \in DOMAIN closed :
        /\ closed[i].cur /\ closed[i].qlen > 0
        /\ Expired(i)
        /\ CreatedByTimerOf(i) # {}

\* C5 as stated: after a close with an empty queue no reconnect timer is
\* pending (and no connect attempt is made until the next enqueue).
C5_Original ==
    /\ [](\A t \in ReconnectTimers : closed[t.owner].qlen > 0)
    /\ [][Len(sockets') > Len(sockets) =>
             (nmsgs' = nmsgs + 1 \/ Len(msgQueue) > 0)]_vars

\* C5 amended: after a close with an empty queue the reconnect timer is
\* pending for its 5 seconds like after any close, but no transport is
\* created until the next enqueue: a transport is created only by an enqueue
\* or with a message in the queue, and an expiry with an empty queue changes
\* neither ws nor any transport.
C5_Amended ==
    /\ [](\A i \in DOMAIN closed :
            (closed[i].at >= 0 /\ closed[i].qlen = 0 /\ now < closed[i].at + 5000)
                => \E t \in ReconnectTimers : t.owner = i)
    /\ [][Len(sockets') > Len(sockets) =>
             (nmsgs' = nmsgs + 1 \/ Len(msgQueue) > 0)]_vars
    /\ [][\A t \in timers : (ReconnectExpiry(t) /\ Len(msgQueue) = 0) =>
             (ws' = ws /\ sockets' = sockets)]_vars

\* C5 witness: the only transport closed with an empty queue, its timer has
\* expired, nothing was enqueued since and there is still no other transport
C5_Witness ==
    /\ closed[1].at >= 0 /\ closed[1].qlen = 0
    /\ Expired(1)
    /\ msgQueue = <<>>
    /\ Len(sockets) = 1

\* C6: at most one reconnect-delay timer is pending at any time.
C6_SingleReconnectTimer == Cardinality(ReconnectTimers) <= 1
\* the idle timer resetIdleTimer has just armed: 10 minutes from now
FreshIdle ==
    \E t \in IdleTimers : t.id = idleTimer /\ t.deadline = now + 600000

\* flushMsgQueue runs through in this step: on the open of ws, or in an
\* enqueue while ws is OPEN
FlushStep ==
    \/ sockets[ws] = "CONNECTING" /\ sockets'[ws] = "OPEN"
    \/ nmsgs' = nmsgs + 1 /\ sockets[ws] = "OPEN"

\* C7 as stated: at most one idle timer is pending, and every successful
\* flush and every enqueue, in every connection state, resets it.
C7_Original ==
    /\ [](Cardinality(IdleTimers) <= 1)
    /\ [][(FlushStep \/ nmsgs' = nmsgs + 1) => FreshIdle']_vars

\* C7 amended: at most one idle timer is pending, and every successful flush
\* (on transport open, or run by an enqueue while Open) cancels it and arms a
\* fresh 10-minute one; an enqueue while the transport is not Open leaves the
\* idle timer as it is.
C7_Amended ==
    /\ [](Cardinality(IdleTimers) <= 1)
    /\ [][FlushStep => (FreshIdle' /\ IdleTimers' \cap IdleTimers = {})]_vars
    /\ [][(nmsgs' = nmsgs + 1 /\ sockets[ws] # "OPEN") =>
             (IdleTimers' = IdleTimers /\ idleTimer' = idleTimer)]_vars

\* C7 witness: two flushes on one transport at different times, the idle timer
\* pending is the one armed by the second
C7_Witness ==
    /\ Len(sent) = 2
    /\ sent[1].to = sent[2].to /\ sent[1].at < sent[2].at
    /\ \E t \in IdleTimers : t.deadline = sent[2].at + 600000
    /\ Cardinality(IdleTimers) = 1

\* C8: the connection state changes only from Disconnected to Connecting,
\* from Connecting to Open and from Connecting or Open to Disconnected, and a
\* connect attempt that creates a transport is a step from Disconnected to
\* Connecting.
C8_Transitions ==
    /\ [][ConnState' # ConnState =>
             <<ConnState, ConnState'>> \in {<<"Disconnected", "Connecting">>,
                                           <<"Connecting", "Open">>,
                                           <<"Connecting", "Disconnected">>,
                                           <<"Open", "Disconnected">>}]_vars
    /\ [][(ws' # ws \/ Len(sockets') > Len(sockets)) =>
             (ConnState = "Disconnected" /\ ConnState' = "Connecting")]_vars

\* C8 witness: a second transport is Open after the first went through Open
\* (it sent a message) to closed
C8_Witness ==
    /\ Len(sockets) >= 2 /\ ws = 2
    /\ sockets[1] = "CLOSED" /\ sockets[2] = "OPEN"
    /\ \E j \in DOMAIN sent : sent[j].to = 1

\* C9: the error of a transport closes that transport and no other one.
C9_ErrorClosesOwn ==
    [][\A i \in DOMAIN sockets :
          (i \notin errored /\ i \in errored') =>
              \A j \in DOMAIN sockets : j # i => sockets'[j] = sockets[j]]_vars

\* an idle timer expires in this step (it is gone and none was armed)
IdleExpiry(t) == t \in IdleTimers /\ t \notin timers' /\ IdleTimers' = IdleTimers \ {t}

\* C10: an Open transport always has its idle timer pending, due at most 10
\* minutes ahead and exactly 10 minutes after a flush; when the timer expires
\* with ws still Open, ws is closed, and only once, since no idle timer is
\* left; when ws is not Open the expiry changes no transport.
C10_IdleClose ==
    /\ [](sockets[ws] = "OPEN" =>
            \E t \in IdleTimers : t.id = idleTimer /\ t.deadline <= now + 600000)
    /\ [][FlushStep => FreshIdle']_vars
    /\ [][\A t \in timers : IdleExpiry(t) =>
             /\ now = t.deadline
             /\ IdleTimers' = {}
             /\ ws' = ws
             /\ sockets' = IF sockets[ws] = "OPEN"
                           THEN [sockets EXCEPT ![ws] = "CLOSING"]
                           ELSE sockets]_vars

\* C10 witness: 10 minutes after the flush of the first transport, with
\* nothing enqueued since, the idle timer has closed it
C10_Witness ==
    /\ ws = 1 /\ sockets[1] = "CLOSING" /\ errored = {}
    /\ now = 600000
    /\ timers = {}
    /\ msgQueue = <<>>

\* C11: an enqueue always appends the message; with the transport Open the
\* queue is flushed at once, the new message last; otherwise the message
\* stays at the end of the queue, nothing is sent, and a transport is created
\* unless one is already Connecting.
C11_Enqueue ==
    [][nmsgs' = nmsgs + 1 =>
         IF sockets[ws] = "OPEN"
         THEN /\ msgQueue' = <<>>
              /\ Len(sent') = Len(sent) + Len(msgQueue) + 1
              /\ sent'[Len(sent')].text = nmsgs + 1
              /\ sent'[Len(sent')].to = ws
              /\ ws' = ws /\ sockets' = sockets
         ELSE /\ msgQueue' = Append(msgQueue, [text |-> nmsgs + 1, time |-> now])
              /\ sent' = sent
              /\ Len(sockets') = Len(sockets)
                     + (IF sockets[ws] = "CONNECTING" THEN 0 ELSE 1)
              /\ sockets'[ws'] = "CONNECTING"]_vars

\* C11 witness: the first message was flushed at once by the Open first
\* transport; the second, enqueued after that transport went away, is queued
\* behind a transport its enqueue created
C11_Witness ==
    /\ nmsgs = 2
    /\ Len(sent) = 1 /\ sent[1].to = 1 /\ sent[1].at = sent[1].queued
    /\ Len(msgQueue) = 1 /\ msgQueue[1].text = 2
    /\ ws = 2 /\ sockets[2] = "CONNECTING" /\ created[2].by = "enqueue"

\* C12: the text sent carries the suffix " (delayed Ns)", N the latency
\* rounded to whole seconds, exactly when the latency from enqueue to send is
\* above 5 seconds; at 5 seconds or less the text is sent unchanged.
C12_DelaySuffix ==
    \A j \in DOMAIN sent :
        LET ms == sent[j].at - sent[j].queued
        IN IF ms > 5000
           THEN /\ sent[j].suffix * 1000 - 500 <= ms
                /\ ms < sent[j].suffix * 1000 + 500
           ELSE sent[j].suffix = 0

\* C12 witness: one flush sends a message queued for more than 5 seconds with
\* its suffix and a message queued for less without
C12_Witness ==
    \E j, k \in DOMAIN sent :
        /\ sent[j].at - sent[j].queued > 5000 /\ sent[j].suffix > 0
        /\ sent[k].at - sent[k].queued > 0
        /\ sent[k].at - sent[k].queued < 5000 /\ sent[k].suffix = 0
\* C13: every transport is created with the credential that is current at the
\* moment of the connect attempt, and a renewal never changes the credential
\* an existing transport was created with: the new value is used by the next
\* connect attempt only.
C13_CookieAtConnect ==
    [][/\ Len(created') > Len(created) =>
            created'[Len(created')].cookie = cookie.id
       /\ \A i \in DOMAIN created : created'[i].cookie = created[i].cookie
       /\ cookie' # cookie => /\ sockets' = sockets
                              /\ ws' = ws
                              /\ created' = created]_vars

\* transport 1 sent a message after the renewal had replaced the credential it
\* was created with, and the transport created after it carries the new one
C13_Witness ==
    /\ Len(created) >= 2
    /\ runs # <<>> /\ runs[1].pc = "done"
    /\ \E j \in DOMAIN sent : sent[j].to = 1 /\ sent[j].at > runs[1].end
    /\ created[1].cookie = 0
    /\ created[2].cookie = 1

\* C14: when the token request or the login request fails (response not ok,
\* token invalid, no set-cookie header, request rejected) the run ends there,
\* the credential in memory and the one in .env are unchanged, and the run is
\* not taken up again.
C14_FailureKeepsCredential ==
    [][\A r \in DOMAIN runs :
         /\ runs[r].pc \in {"token", "login"} /\ runs'[r].pc = "failed" =>
                /\ cookie' = cookie
                /\ envFile' = envFile
                /\ Len(runs') = Len(runs)
         /\ runs[r].pc = "failed" => runs'[r] = runs[r]]_vars

C14_Witness ==
    \E r, q \in DOMAIN runs :
        /\ runs[r].pc = "failed" /\ runs[r].out = "nosetcookie"
        /\ runs[q].pc = "failed" /\ runs[q].out = "invalid"
        /\ cookie.id = 0
        /\ envFile = 0

\* C15: a successful exchange replaces the credential in memory by the new
\* value, and when the write of .env fails the file keeps the old value
\* while the memory keeps the new one; the credential in memory has been
\* replaced once per successful exchange.
C15_NoRollback ==
    /\ [](cookie.id = Cardinality({r \in DOMAIN runs : runs[r].pc = "done"}))
    /\ [][\A r \in DOMAIN runs :
             runs[r].pc = "login" /\ runs'[r].pc = "done" =>
                /\ cookie'.id = cookie.id + 1
                /\ cookie'.exp \in IssuedExps(now)
                /\ runs'[r].file = "writefail" => envFile' = envFile
                /\ runs'[r].file = "written" => envFile' = cookie'.id]_vars

C15_Witness ==
    \E r \in DOMAIN runs :
        /\ runs[r].pc = "done"
        /\ runs[r].file = "writefail"
        /\ cookie.id = 1
        /\ envFile = 0

\* C16: a check starts the exchange exactly when exp minus the current time in
\* whole seconds is under 10 days (864000 s), and never when the credential
\* cannot be parsed or has no exp claim.
C16_Gate ==
    \A r \in DOMAIN runs :
        LET left == runs[r].exp - (runs[r].at \div 1000)
        IN IF runs[r].exp <= 0
           THEN runs[r].pc = "skipped"
           ELSE IF left < 864000
                THEN runs[r].pc \in {"token", "login", "done", "failed"}
                ELSE runs[r].pc = "notneeded"

\* exactly 10 days left at startup: no exchange; 9 days left a day later: one
C16_Witness ==
    /\ Len(runs) = 2
    /\ runs[1].exp - (runs[1].at \div 1000) = 864000
    /\ runs[1].pc = "notneeded"
    /\ runs[2].exp - (runs[2].at \div 1000) = 777600
    /\ runs[2].pc = "token"

\* C17 as stated: at no time are two renewal exchanges in progress.
C17_Original == Cardinality(InProgress) <= 1

\* C17 amended: two exchanges are never in progress as long as every exchange
\* in progress started less than 24 hours (86400000 ms) ago.
C17_Amended ==
    (\A r \in InProgress : now - runs[r].at < 86400000)
        => Cardinality(InProgress) <= 1

\* the first exchange has ended and the one started 24 hours later is going on
C17_Witness ==
    /\ Len(runs) = 2
    /\ runs[1].pc \in {"done", "failed"}
    /\ runs[1].end < runs[2].at
    /\ runs[2].pc = "login"
    /\ runs[2].at - runs[1].at = 86400000
\* C18 as stated: with a shared secret configured, a POST / request without
\* the right bearer token is answered 401 and never reaches the remote
\* console, and one with the right token and a non-empty command has
\* contacted the remote console exactly once when it is answered.
C18_Original ==
    relayCfg.token =>
        \A q \in DOMAIN reqs :
            /\ reqs[q].route = "root" /\ reqs[q].auth # "right" =>
                   /\ reqs[q].status = 401
                   /\ reqs[q].connects = 0 /\ reqs[q].sends = 0
            /\ reqs[q].route = "root" /\ reqs[q].auth = "right"
                  /\ reqs[q].body = "command" =>
                   /\ reqs[q].connects <= 1 /\ reqs[q].sends <= 1
                   /\ reqs[q].pc = "done" => reqs[q].connects = 1

\* C18 amended: the same, where the request with the right token and a
\* command contacts the remote console exactly once when RCON_PASSWORD is
\* configured and not at all (answer 200) when it is not.
C18_Amended ==
    relayCfg.token =>
        \A q \in DOMAIN reqs :
            /\ reqs[q].route = "root" /\ reqs[q].auth # "right" =>
                   /\ reqs[q].status = 401
                   /\ reqs[q].connects = 0 /\ reqs[q].sends = 0
            /\ reqs[q].route = "root" /\ reqs[q].auth = "right"
                  /\ reqs[q].body = "command" =>
                   /\ reqs[q].connects <= 1 /\ reqs[q].sends <= 1
                   /\ reqs[q].pc = "done" =>
                         IF relayCfg.password
                         THEN reqs[q].connects = 1
                         ELSE reqs[q].connects = 0 /\ reqs[q].status = 200

\* one request with a wrong token was turned away and another with the right
\* token had its command sent over a session that was closed again
C18_Witness ==
    /\ relayCfg.token /\ relayCfg.password
    /\ \E q, p \in DOMAIN reqs :
          /\ reqs[q].route = "root" /\ reqs[q].auth = "wrong"
          /\ reqs[q].status = 401
          /\ reqs[p].route = "root" /\ reqs[p].auth = "right"
          /\ reqs[p].body = "command" /\ reqs[p].pc = "done"
          /\ reqs[p].connects = 1 /\ reqs[p].sends = 1
          /\ reqs[p].session = "closed"

\* C19: an authorised request with a command whose remote-console connection
\* or send failed is answered 500, never 200, and the remote console is
\* contacted no second time for it.
C19_RconFailure500 ==
    \A q \in DOMAIN reqs :
        Authorised(q) /\ reqs[q].fail \in {"connect", "send"} =>
            /\ reqs[q].status = 500
            /\ reqs[q].connects = 1

\* C20: an authorised POST / request whose body cannot be parsed or holds no
\* non-empty command string is answered with a 4xx status and the remote
\* console is not contacted.
C20_ClientError ==
    \A q \in DOMAIN reqs :
        Authorised(q) /\ reqs[q].body # "command" =>
            /\ reqs[q].connects = 0
            /\ reqs[q].pc = "done" => reqs[q].status \in 400..499
\* C21: a remote-console session opened for a request is closed when the
\* handling of that request has ended, whether the send succeeded or failed,
\* so that no session remains open once every request is answered.
C21_SessionClosed ==
    \A q \in DOMAIN reqs :
        reqs[q].pc = "done" => reqs[q].session # "open"
\* the first rule, in the order chat, join, leave, welcome, advancement,
\* death, among the rules that match the line s ("none" when none does)
EarliestRule(v, s) ==
    LET order == <<"chat", "join", "leave", "welcome", "advancement", "death">>
    IN IF Matching(v, s) = {} THEN "none"
       ELSE order[CHOOSE k \in 1..6 : /\ order[k] \in Matching(v, s)
                                      /\ \A j \in 1..(k - 1) : order[j] \notin Matching(v, s)]

\* C22: the event made of a log line is that of the earliest rule, in the
\* order chat, join, leave, welcome, advancement, death, that matches it;
\* a line enqueues (bridge.js) or pushes (log_parser.js) at most one message,
\* and none when no rule matches or the line has no '/INFO]'.
C22_FirstRuleWins ==
    /\ [](\A k \in DOMAIN handled :
            /\ handled[k].event.rule = EarliestRule("bridge", Toks(handled[k].line))
            /\ ~HasInfo(Toks(handled[k].line)) => handled[k].event.rule = "none"
            /\ handled[k].event.rule = "none" <=> handled[k].n = 0)
    /\ [](\A k \in DOMAIN outputLines :
            /\ outputLines[k].event.rule
                   = EarliestRule("parser", Toks(outputLines[k].line))
            /\ HasInfo(Toks(outputLines[k].line)))
    /\ [][/\ nmsgs' <= nmsgs + 1
          /\ Len(outputLines') <= Len(outputLines) + 1
          /\ Len(handled') > Len(handled) =>
                nmsgs' = nmsgs + (IF handled'[Len(handled')].n = 0 THEN 0 ELSE 1)]_vars

\* a line that the leave rule and the death rule match became a leave event,
\* and a line with a join after a leave was pushed once, as a join
C22_Witness ==
    /\ \E k \in DOMAIN handled :
          /\ Matching("bridge", Toks(handled[k].line)) = {"leave", "death"}
          /\ handled[k].event.rule = "leave"
          /\ nmsgs = 1 /\ Len(msgQueue) = 1
    /\ \E k \in DOMAIN outputLines :
          /\ Matching("parser", Toks(outputLines[k].line)) = {"join", "leave", "death"}
          /\ outputLines[k].event.rule = "join"
          /\ Len(outputLines) = 1

\* C23: the queue is never non-empty while nothing is under way that will
\* lead to a flush: some transport is CONNECTING or OPEN, or a transport is
\* CLOSING (its close event is still to come), or a reconnect timer is
\* pending.
C23_NoStuckQueue ==
    msgQueue # <<>> =>
        \/ \E i \in DOMAIN sockets : sockets[i] \in {"CONNECTING", "OPEN"}
        \/ \E i \in DOMAIN sockets : sockets[i] = "CLOSING"
        \/ ReconnectTimers # {}

\* messages wait in the queue, every transport is CLOSED, and only the
\* reconnect timer is left to bring them out
C23_Witness ==
    /\ msgQueue # <<>>
    /\ \A i \in DOMAIN sockets : sockets[i] = "CLOSED"
    /\ Cardinality(ReconnectTimers) = 1

\* C24: between handlers, the queue is empty whenever the current transport
\* is OPEN.
C24_OpenMeansEmpty == IsOpen(ws, sockets) => msgQueue = <<>>

\* two messages queued while connecting were flushed by the open handler
C24_Witness ==
    /\ IsOpen(ws, sockets)
    /\ msgQueue = <<>>
    /\ Len(sent) = 2
    /\ \A j \in DOMAIN sent : sent[j].to = ws /\ sent[j].at > sent[j].queued

\* C25: no message is handed to a transport twice.
C25_NoDuplicate ==
    \A j, k \in DOMAIN sent : sent[j].text = sent[k].text => j = k

\* the two messages went out on two different transports, the second one
\* after a close and a reconnect
C25_Witness ==
    /\ Len(sent) = 2
    /\ sent[1].to = 1 /\ sent[2].to = 2
    /\ sent[1].text = 1 /\ sent[2].text = 2
    /\ closed[1].at >= 0
    /\ sent[2].at > sent[2].queued

\* C26: over calls of generateTimestamp in non-decreasing time order no two
\* calls return the same value: the values returned are as many as the calls.
C26_UniqueTimestamps == Cardinality(returned) = ncalls
====
